---- MODULE Spec2Model ----
(***************************************************************************)
(* Model of the rate limiter Durable Object of src/src/durable-object.ts:  *)
(* the fixed-window counter checkLimit, the alarm() expiry sweep and the   *)
(* constructor's scheduleCleanup, over the actor's key/value storage and   *)
(* its single alarm deadline.                                              *)
(***************************************************************************)
EXTENDS Integers, FiniteSets, Sequences, TLC

\* ------------------------------------------------------------------ bounds
MaxTick == 2
MaxMax == 2
MaxWindow == 2
MaxAdvance == 1

\* ------------------------------------------------------- program constants
CLEANUP_INTERVAL_MS == 12 * 60 * 60 * 1000

\* the latest time followed: long enough for the deadline set by a sweep
\* that ran among the calls to come due and its handler to finish
Horizon == CLEANUP_INTERVAL_MS + MaxTick + 2 * MaxAdvance

Identifiers == {"a", "b"}
Maxes == 1..MaxMax
Windows == 1..MaxWindow

\* storage.getAlarm() returns null when no alarm is pending
NULL == -1

VARIABLES now, storage, alarmDeadline, last, win,
          error, solo, actors, limiter, lim,
          maxOf, twin, quiet,
          gate, ctor, sweep, inflight, acc

\* error: what the most recent handler invocation threw (NoError when it
\* returned); solo: a second actor that receives only the observed
\* identifier's calls; actors, limiter, lim: the Durable Object namespace,
\* the CloudflareDurableRateLimiter built on it and its last limit() call.
adapterVars == <<actors, limiter, lim>>

\* maxOf: the max each identifier's callers pass, where it is fixed; twin: an
\* actor of src/src/do-rate-limiter/do.ts that is sent the same calls; quiet:
\* the identifiers that receive no further checkLimit call.
moreVars == <<maxOf, twin, quiet>>

\* gate: the blockConcurrencyWhile callback that is running, if any; ctor,
\* sweep: how far the constructor's scheduleCleanup and the alarm() handler
\* have got; inflight: the checkLimit invocations suspended at a storage
\* await; acc: the successes returned in the observed identifier's window.
concVars == <<gate, ctor, sweep, inflight, acc>>

vars == <<now, storage, alarmDeadline, last, win, error, solo, adapterVars,
          moreVars, concVars>>

NoError == "none"

\* --------------------------------------------------------------- storage
\* DurableObjectStorage as a key -> value map; an absent key is not in the
\* domain (get returns undefined).
EmptyStorage == [k \in {} |-> 0]

Has(st, key) == key \in DOMAIN st

Put(st, key, value) ==
    [k \in (DOMAIN st) \cup {key} |-> IF k = key THEN value ELSE st[k]]

Delete(st, keys) == [k \in (DOMAIN st) \ keys |-> st[k]]

NoOps == [get |-> 0, put |-> 0, delete |-> 0, list |-> 0,
          getAlarm |-> 0, setAlarm |-> 0]

NoResult == [success |-> FALSE, remaining |-> 0, reset |-> 0, limit |-> 0]

\* ------------------------------------------------------------ checkLimit
\* entry.timestamp < windowStart, windowStart = now - windowMs (argument)
WindowExpired_stored(entry, t, windowMs) ==
    entry.timestamp + entry.windowMs < t

WindowExpired_inclusive(entry, t, windowMs) ==
    entry.timestamp <= t - windowMs

WindowExpired(entry, t, windowMs) ==
    LET windowStart == t - windowMs
    IN  entry.timestamp < windowStart

\* "No entry or window expired, initialize new window"
NewWindow_keepCount(st, identifier, max, windowMs, t) ==
    LET old == IF Has(st, identifier) THEN st[identifier].count ELSE 0
        entry == [count |-> old + 1, timestamp |-> t, windowMs |-> windowMs]
    IN  [storage |-> Put(st, identifier, entry),
         result |-> [success |-> TRUE, remaining |-> max - 1,
                     reset |-> t + windowMs, limit |-> max],
         ops |-> [NoOps EXCEPT !.get = 1, !.put = 1]]

NewWindow_dropOthers(st, identifier, max, windowMs, t) ==
    LET entry == [count |-> 1, timestamp |-> t, windowMs |-> windowMs]
    IN  [storage |-> Put(EmptyStorage, identifier, entry),
         result |-> [success |-> TRUE, remaining |-> max - 1,
                     reset |-> t + windowMs, limit |-> max],
         ops |-> [NoOps EXCEPT !.get = 1, !.put = 1]]

NewWindow_zeroCount(st, identifier, max, windowMs, t) ==
    LET entry == [count |-> 0, timestamp |-> t, windowMs |-> windowMs]
    IN  [storage |-> Put(st, identifier, entry),
         result |-> [success |-> TRUE, remaining |-> max - 1,
                     reset |-> t + windowMs, limit |-> max],
         ops |-> [NoOps EXCEPT !.get = 1, !.put = 1]]

NewWindow(st, identifier, max, windowMs, t) ==
    LET entry == [count |-> 1, timestamp |-> t, windowMs |-> windowMs]
    IN  [storage |-> Put(st, identifier, entry),
         result |-> [success |-> TRUE, remaining |-> max - 1,
                     reset |-> t + windowMs, limit |-> max],
         ops |-> [NoOps EXCEPT !.get = 1, !.put = 1]]

\* "Rate limited"
RateLimited_storedWindow(st, identifier, max, windowMs, t) ==
    LET entry == st[identifier]
    IN  [storage |-> st,
         result |-> [success |-> FALSE, remaining |-> 0,
                     reset |-> entry.timestamp + entry.windowMs,
                     limit |-> max],
         ops |-> [NoOps EXCEPT !.get = 1]]

RateLimited_writes(st, identifier, max, windowMs, t) ==
    LET entry == st[identifier]
    IN  [storage |-> Put(st, identifier, [entry EXCEPT !.windowMs = windowMs]),
         result |-> [success |-> FALSE, remaining |-> 0,
                     reset |-> entry.timestamp + windowMs, limit |-> max],
         ops |-> [NoOps EXCEPT !.get = 1, !.put = 1]]

RateLimited_diffRemaining(st, identifier, max, windowMs, t) ==
    LET entry == st[identifier]
    IN  [storage |-> st,
         result |-> [success |-> FALSE, remaining |-> max - entry.count,
                     reset |-> entry.timestamp + windowMs, limit |-> max],
         ops |-> [NoOps EXCEPT !.get = 1]]

RateLimited(st, identifier, max, windowMs, t) ==
    LET entry == st[identifier]
    IN  [storage |-> st,
         result |-> [success |-> FALSE, remaining |-> 0,
                     reset |-> entry.timestamp + windowMs, limit |-> max],
         ops |-> [NoOps EXCEPT !.get = 1]]

\* "Increment count"
Increment_restart(st, identifier, max, windowMs, t) ==
    LET old == st[identifier]
        entry == [count |-> old.count + 1,
                  timestamp |-> IF windowMs = old.windowMs
                                THEN old.timestamp ELSE t,
                  windowMs |-> windowMs]
    IN  [storage |-> Put(st, identifier, entry),
         result |-> [success |-> TRUE, remaining |-> max - entry.count,
                     reset |-> entry.timestamp + windowMs, limit |-> max],
         ops |-> [NoOps EXCEPT !.get = 1, !.put = 1]]

Increment_storedReset(st, identifier, max, windowMs, t) ==
    LET old == st[identifier]
        entry == [old EXCEPT !.count = old.count + 1, !.windowMs = windowMs]
    IN  [storage |-> Put(st, identifier, entry),
         result |-> [success |-> TRUE, remaining |-> max - entry.count,
                     reset |-> old.timestamp + old.windowMs, limit |-> max],
         ops |-> [NoOps EXCEPT !.get = 1, !.put = 1]]

Increment_preCount(st, identifier, max, windowMs, t) ==
    LET old == st[identifier]
        entry == [old EXCEPT !.count = old.count + 1, !.windowMs = windowMs]
    IN  [storage |-> Put(st, identifier, entry),
         result |-> [success |-> TRUE, remaining |-> max - old.count,
                     reset |-> entry.timestamp + windowMs, limit |-> max],
         ops |-> [NoOps EXCEPT !.get = 1, !.put = 1]]

Increment_twoPuts(st, identifier, max, windowMs, t) ==
    LET old == st[identifier]
        entry == [old EXCEPT !.count = old.count + 1, !.windowMs = windowMs]
    IN  [storage |-> Put(Put(st, identifier,
                             [old EXCEPT !.count = old.count + 1]),
                         identifier, entry),
         result |-> [success |-> TRUE, remaining |-> max - entry.count,
                     reset |-> entry.timestamp + windowMs, limit |-> max],
         ops |-> [NoOps EXCEPT !.get = 1, !.put = 2]]

Increment(st, identifier, max, windowMs, t) ==
    LET old == st[identifier]
        entry == [old EXCEPT !.count = old.count + 1, !.windowMs = windowMs]
    IN  [storage |-> Put(st, identifier, entry),
         result |-> [success |-> TRUE, remaining |-> max - entry.count,
                     reset |-> entry.timestamp + windowMs, limit |-> max],
         ops |-> [NoOps EXCEPT !.get = 1, !.put = 1]]

\* checkLimit(identifier, max, windowMs) called at Date.now() = t
checkLimit_capAbove(st, identifier, max, windowMs, t) ==
    IF ~Has(st, identifier) \/ WindowExpired(st[identifier], t, windowMs)
    THEN NewWindow(st, identifier, max, windowMs, t)
    ELSE IF st[identifier].count > max
         THEN RateLimited(st, identifier, max, windowMs, t)
         ELSE Increment(st, identifier, max, windowMs, t)

checkLimit(st, identifier, max, windowMs, t) ==
    IF ~Has(st, identifier) \/ WindowExpired(st[identifier], t, windowMs)
    THEN NewWindow(st, identifier, max, windowMs, t)
    ELSE IF st[identifier].count >= max
         THEN RateLimited(st, identifier, max, windowMs, t)
         ELSE Increment(st, identifier, max, windowMs, t)

\* ----------------------------------------------------------------- alarm
\* expirationTime < now, expirationTime = entry.timestamp + entry.windowMs
SweepExpired_inclusive(entry, t) ==
    entry.timestamp + entry.windowMs <= t

SweepExpired_ignoresWindow(entry, t) ==
    entry.timestamp < t

SweepExpired(entry, t) ==
    LET expirationTime == entry.timestamp + entry.windowMs
    IN  expirationTime < t

\* "Reschedule the next cleanup"; t2 is the second Date.now() reading
NextCleanup_conditional(t2, expiredKeys, oldAlarm) ==
    IF expiredKeys = {} THEN oldAlarm ELSE t2 + CLEANUP_INTERVAL_MS

NextCleanup(t2, expiredKeys, oldAlarm) == t2 + CLEANUP_INTERVAL_MS

\* the number of storage.delete calls of one sweep
DeleteCalls_always(expiredKeys) == 1

DeleteCalls(expiredKeys) == IF Cardinality(expiredKeys) > 0 THEN 1 ELSE 0

\* alarm() entered at Date.now() = t; its second Date.now() reads t2
alarm_noDelete(st, oldAlarm, t, t2) ==
    LET expiredKeys == {key \in DOMAIN st : SweepExpired(st[key], t)}
    IN  [storage |-> st,
         alarm |-> NextCleanup(t2, expiredKeys, oldAlarm),
         ops |-> [NoOps EXCEPT !.list = 1, !.setAlarm = 1]]

alarm(st, oldAlarm, t, t2) ==
    LET expiredKeys == {key \in DOMAIN st : SweepExpired(st[key], t)}
    IN  [storage |-> IF DeleteCalls(expiredKeys) > 0
                     THEN Delete(st, expiredKeys) ELSE st,
         alarm |-> NextCleanup(t2, expiredKeys, oldAlarm),
         ops |-> [NoOps EXCEPT !.list = 1,
                               !.delete = DeleteCalls(expiredKeys),
                               !.setAlarm = 1]]

\* ------------------------------------------------------- scheduleCleanup
scheduleCleanup_always(existingAlarm, t) ==
    [alarm |-> t + CLEANUP_INTERVAL_MS,
     ops |-> [NoOps EXCEPT !.getAlarm = 1, !.setAlarm = 1]]

scheduleCleanup(existingAlarm, t) ==
    IF existingAlarm = NULL
    THEN [alarm |-> t + CLEANUP_INTERVAL_MS,
          ops |-> [NoOps EXCEPT !.getAlarm = 1, !.setAlarm = 1]]
    ELSE [alarm |-> existingAlarm,
          ops |-> [NoOps EXCEPT !.getAlarm = 1]]

\* ------------------------------------- checkLimit of do-rate-limiter/do.ts
\* The second implementation: its entries are { count, timestamp }, it has
\* no alarm and its constructor schedules nothing.
do_WindowExpired(entry, t, windowMs) ==
    LET windowStart == t - windowMs
    IN  entry.timestamp < windowStart

do_NewWindow(st, identifier, max, windowMs, t) ==
    LET entry == [count |-> 1, timestamp |-> t]
    IN  [storage |-> Put(st, identifier, entry),
         result |-> [success |-> TRUE, remaining |-> max - 1,
                     reset |-> t + windowMs, limit |-> max],
         ops |-> [NoOps EXCEPT !.get = 1, !.put = 1]]

do_RateLimited(st, identifier, max, windowMs, t) ==
    LET entry == st[identifier]
    IN  [storage |-> st,
         result |-> [success |-> FALSE, remaining |-> 0,
                     reset |-> entry.timestamp + windowMs, limit |-> max],
         ops |-> [NoOps EXCEPT !.get = 1]]

do_Increment_noWrite(st, identifier, max, windowMs, t) ==
    LET entry == [st[identifier] EXCEPT !.count = @ + 1]
    IN  [storage |-> st,
         result |-> [success |-> TRUE, remaining |-> max - entry.count,
                     reset |-> entry.timestamp + windowMs, limit |-> max],
         ops |-> [NoOps EXCEPT !.get = 1]]

do_Increment(st, identifier, max, windowMs, t) ==
    LET entry == [st[identifier] EXCEPT !.count = @ + 1]
    IN  [storage |-> Put(st, identifier, entry),
         result |-> [success |-> TRUE, remaining |-> max - entry.count,
                     reset |-> entry.timestamp + windowMs, limit |-> max],
         ops |-> [NoOps EXCEPT !.get = 1, !.put = 1]]

do_checkLimit(st, identifier, max, windowMs, t) ==
    IF ~Has(st, identifier) \/ do_WindowExpired(st[identifier], t, windowMs)
    THEN do_NewWindow(st, identifier, max, windowMs, t)
    ELSE IF st[identifier].count >= max
         THEN do_RateLimited(st, identifier, max, windowMs, t)
         ELSE do_Increment(st, identifier, max, windowMs, t)

\* ------------------------------------------------------ storage failures
\* Every storage operation is asynchronous and may reject; fail names the
\* operation that rejects in this invocation ("none": all succeed). The
\* handlers have no try/catch, so the rejection ends the invocation there
\* and is what the invocation throws.
CheckLimitFails == {"none", "get", "put"}
AlarmFails == {"none", "list", "delete", "setAlarm"}

checkLimitFailing_retryPut(st, identifier, max, windowMs, t, fail) ==
    LET r == checkLimit(st, identifier, max, windowMs, t)
    IN  IF fail = "get"
        THEN [storage |-> st, result |-> NoResult,
              ops |-> [NoOps EXCEPT !.get = 1], error |-> "get"]
        ELSE [storage |-> r.storage, result |-> r.result,
              ops |-> IF fail = "put" /\ r.ops.put > 0
                      THEN [r.ops EXCEPT !.put = 2] ELSE r.ops,
              error |-> NoError]

checkLimitFailing(st, identifier, max, windowMs, t, fail) ==
    LET r == checkLimit(st, identifier, max, windowMs, t)
    IN  IF fail = "get"
        THEN [storage |-> st, result |-> NoResult,
              ops |-> [NoOps EXCEPT !.get = 1], error |-> "get"]
        ELSE IF fail = "put" /\ r.ops.put > 0
             THEN [storage |-> st, result |-> NoResult,
                   ops |-> r.ops, error |-> "put"]
             ELSE [storage |-> r.storage, result |-> r.result,
                   ops |-> r.ops, error |-> NoError]

\* alarm() with a failing storage operation: the statements after the
\* rejected await, setAlarm among them, do not run. The deadline that
\* fired is no longer pending while the handler runs; when the handler
\* throws, the runtime either keeps it to run the handler again (retry) or,
\* its retries used up, leaves no deadline.
alarmFailing(st, oldAlarm, t, t2, fail, retry) ==
    LET r == alarm(st, oldAlarm, t, t2)
        left == IF retry THEN oldAlarm ELSE NULL
    IN  IF fail = "list"
        THEN [storage |-> st, alarm |-> left,
              ops |-> [NoOps EXCEPT !.list = 1], error |-> "list"]
        ELSE IF fail = "delete" /\ r.ops.delete > 0
        THEN [storage |-> st, alarm |-> left,
              ops |-> [r.ops EXCEPT !.setAlarm = 0], error |-> "delete"]
        ELSE IF fail = "setAlarm"
        THEN [storage |-> r.storage, alarm |-> left,
              ops |-> r.ops, error |-> "setAlarm"]
        ELSE [storage |-> r.storage, alarm |-> r.alarm,
              ops |-> r.ops, error |-> NoError]

\* --------------------------------------------------------------- adapter
\* CloudflareDurableRateLimiter: options.prefix is optional (a set with at
\* most one element); limit(key) is called with any string, the empty one
\* included.
DefaultPrefix == "orpc:ratelimit:"

PrefixOptions == {{}, {"custom:"}}

Keys == {"", "x", "y"}

\* constructor(namespace, options)
newLimiter(prefixOption, maxRequests, window) ==
    [options |-> prefixOption,
     prefix |-> IF prefixOption = {} THEN DefaultPrefix
                ELSE CHOOSE p \in prefixOption : TRUE,
     maxRequests |-> maxRequests,
     window |-> window]

\* namespace.getByName(name): the actor of that name, with empty storage
\* when it was never addressed before. Only the actor's storage is kept
\* here: checkLimit, the one method the adapter calls, uses nothing else.
getByName(ns, name, t) ==
    IF Has(ns, name) THEN ns[name]
    ELSE [storage |-> EmptyStorage]

\* const prefixedKey = `${this.prefix}${key}`
prefixedKeyOf(cfg, key) == cfg.prefix \o key

\* limit(key) at Date.now() = t; fail is the storage operation that rejects
\* inside the actor's checkLimit
limit_sharedActor(ns, cfg, key, t, fail) ==
    LET prefixedKey == prefixedKeyOf(cfg, key)
        stub == getByName(ns, cfg.prefix, t)
        r == checkLimitFailing(stub.storage, prefixedKey, cfg.maxRequests,
                               cfg.window, t, fail)
    IN  [actors |-> Put(ns, cfg.prefix, [stub EXCEPT !.storage = r.storage]),
         names |-> <<cfg.prefix>>,
         checks |-> <<[actor |-> cfg.prefix, identifier |-> prefixedKey,
                       max |-> cfg.maxRequests, windowMs |-> cfg.window]>>,
         prev |-> IF Has(stub.storage, prefixedKey)
                  THEN {stub.storage[prefixedKey]} ELSE {},
         inner |-> r,
         result |-> r.result,
         error |-> r.error]

limit(ns, cfg, key, t, fail) ==
    LET prefixedKey == prefixedKeyOf(cfg, key)
        stub == getByName(ns, prefixedKey, t)
        r == checkLimitFailing(stub.storage, prefixedKey, cfg.maxRequests,
                               cfg.window, t, fail)
    IN  [actors |-> Put(ns, prefixedKey, [stub EXCEPT !.storage = r.storage]),
         names |-> <<prefixedKey>>,
         checks |-> <<[actor |-> prefixedKey, identifier |-> prefixedKey,
                       max |-> cfg.maxRequests, windowMs |-> cfg.window]>>,
         prev |-> IF Has(stub.storage, prefixedKey)
                  THEN {stub.storage[prefixedKey]} ELSE {},
         inner |-> r,
         result |-> r.result,
         error |-> r.error]

\* ------------------------------------------------------------ observation
\* last: the most recent handler invocation, its arguments, the entry it
\* read (as a set: empty when the key was absent) and what it returned.
LastRec(op, identifier, max, windowMs, t, prev, result, ops) ==
    [op |-> op, identifier |-> identifier, max |-> max, windowMs |-> windowMs,
     now |-> t, prev |-> prev, result |-> result, ops |-> ops]

\* win[identifier]: history of the current window of the observed
\* identifier: the time and windowMs of the call that opened it and, while
\* the window was opened from an absent key and every call in it has passed
\* the opening call's max and windowMs (tracked), that max and the number k
\* of calls made in it (saturating above MaxMax).
Observed == "a"

Min(a, b) == IF a < b THEN a ELSE b

WinAfter(w, st, st2, identifier, max, windowMs) ==
    IF ~Has(w, identifier) \/ ~Has(st, identifier)
       \/ st2[identifier].timestamp # st[identifier].timestamp
       \/ st2[identifier].count < st[identifier].count
    THEN Put(w, identifier,
             [t |-> st2[identifier].timestamp, windowMs |-> windowMs,
              tracked |-> ~Has(st, identifier),
              max |-> IF Has(st, identifier) THEN 0 ELSE max,
              k |-> IF Has(st, identifier) THEN 0 ELSE 1])
    ELSE IF w[identifier].tracked /\ max = w[identifier].max
            /\ windowMs = w[identifier].windowMs
         THEN Put(w, identifier,
                  [w[identifier] EXCEPT !.k = Min(@ + 1, MaxMax + 1)])
         ELSE Put(w, identifier,
                  [w[identifier] EXCEPT !.tracked = FALSE, !.max = 0,
                                        !.k = 0])

NoLast == LastRec("none", "", 0, 0, 0, {}, NoResult, NoOps)

\* the second actor before any call: empty storage, nothing returned
NoSolo == [storage |-> EmptyStorage]

\* no adapter constructed, no limit() call made
NoLimiter == [options |-> {}, prefix |-> "", maxRequests |-> 0, window |-> 0]

NoLim == [op |-> "none", key |-> "", fault |-> "none", names |-> <<>>,
          checks |-> <<>>, result |-> NoResult, error |-> NoError]

NoMaxOf == [identifier \in {} |-> 0]

NoTwin == [storage |-> EmptyStorage]

\* no blockConcurrencyWhile callback running; constructor finished; no alarm
\* handler running; no checkLimit invocation suspended
NoGate == "none"

CtorDone == [pc |-> "done", sets |-> 0]

SweepIdle == [pc |-> "idle", now |-> 0, scan |-> EmptyStorage,
              expiredKeys |-> {}]

NoInflight == <<>>

\* ctx.blockConcurrencyWhile(callback): while the callback runs, the runtime
\* delivers no other event to the actor. The constructor wraps
\* scheduleCleanup in it and alarm() wraps its whole body; checkLimit does
\* not use it.
ConstructorGate_open == NoGate

ConstructorGate == "constructor"

AlarmGate_open == NoGate

AlarmGate == "alarm"

\* two checkLimit invocations may be suspended at once
Procs == {"p", "q"}

IdleCall == [pc |-> "idle", identifier |-> "", max |-> 0, windowMs |-> 0,
             now |-> 0, read |-> {}]

AllIdle == [p \in Procs |-> IdleCall]

NoAcc == [t |-> NULL, n |-> 0]

\* the variables of the other specifications, at rest
MoreAtRest ==
    /\ maxOf = NoMaxOf
    /\ twin = NoTwin
    /\ quiet = {}

ConcAtRest ==
    /\ gate = NoGate
    /\ ctor = CtorDone
    /\ sweep = SweepIdle
    /\ inflight = NoInflight
    /\ acc = NoAcc

\* ------------------------------------------------------------------ spec
\* The state after construction at time 0. The actor's persisted alarm
\* outlives its instances: the constructor finds either no alarm (first
\* construction) or the deadline a previous instance left, here one that
\* has just come due.
InitActor ==
    /\ now = 0
    /\ storage = EmptyStorage
    /\ \E existingAlarm \in {NULL, 0} :
          /\ alarmDeadline = scheduleCleanup(existingAlarm, 0).alarm
          /\ last = LastRec("constructor", "", 0, 0, 0, {}, NoResult,
                            scheduleCleanup(existingAlarm, 0).ops)
    /\ win = EmptyStorage
    /\ error = NoError
    /\ solo = NoSolo
    /\ actors = EmptyStorage
    /\ limiter = NoLimiter
    /\ lim = NoLim

Init ==
    /\ InitActor
    /\ MoreAtRest
    /\ ConcAtRest

\* one checkLimit invocation, from its Date.now() to its return
Call(identifier, max, windowMs) ==
    \E r \in {checkLimit(storage, identifier, max, windowMs, now)} :
        /\ storage' = r.storage
        /\ last' = LastRec("checkLimit", identifier, max, windowMs, now,
                           IF Has(storage, identifier)
                           THEN {storage[identifier]} ELSE {},
                           r.result, r.ops)
        /\ UNCHANGED <<now, alarmDeadline>>

\* one alarm() invocation; d is how far the clock moves between its two
\* Date.now() readings
Sweep(d) ==
    /\ alarmDeadline # NULL
    /\ now >= alarmDeadline
    /\ now + d <= MaxTick
    /\ \E r \in {alarm(storage, alarmDeadline, now, now + d)} :
           /\ storage' = r.storage
           /\ alarmDeadline' = r.alarm
           /\ last' = LastRec("alarm", "", 0, 0, now, {}, NoResult, r.ops)
    /\ now' = now + d

CheckLimit(identifier, max, windowMs) ==
    /\ Call(identifier, max, windowMs)
    /\ win' = win
    /\ error' = NoError
    /\ UNCHANGED <<solo, adapterVars, moreVars, concVars>>

Alarm(d) ==
    /\ Sweep(d)
    /\ win' = win
    /\ error' = NoError
    /\ UNCHANGED <<solo, adapterVars, moreVars, concVars>>

\* the same invocations with the observed identifier's window history kept
ObservedCheckLimit(identifier, max, windowMs) ==
    /\ Call(identifier, max, windowMs)
    /\ win' = IF identifier = Observed
              THEN WinAfter(win, storage, storage', identifier, max, windowMs)
              ELSE win
    /\ error' = NoError
    /\ UNCHANGED <<solo, adapterVars, moreVars, concVars>>

ObservedAlarm(d) ==
    /\ Sweep(d)
    /\ win' = Delete(win, DOMAIN win \ DOMAIN storage')
    /\ error' = NoError
    /\ UNCHANGED <<solo, adapterVars, moreVars, concVars>>

Restart_wipes ==
    LET r == scheduleCleanup(alarmDeadline, now)
    IN  /\ alarmDeadline' = r.alarm
        /\ storage' = EmptyStorage
        /\ last' = LastRec("constructor", "", 0, 0, now, {}, NoResult, r.ops)
        /\ error' = NoError
        /\ UNCHANGED <<now, win, solo, adapterVars, moreVars, concVars>>

Restart ==
    LET r == scheduleCleanup(alarmDeadline, now)
    IN  /\ alarmDeadline' = r.alarm
        /\ last' = LastRec("constructor", "", 0, 0, now, {}, NoResult, r.ops)
        /\ error' = NoError
        /\ UNCHANGED <<now, storage, win, solo, adapterVars, moreVars,
                       concVars>>

Tick ==
    /\ now < MaxTick
    /\ now' = now + 1
    /\ last' = NoLast
    /\ error' = NoError
    /\ UNCHANGED <<storage, alarmDeadline, win, solo, adapterVars, moreVars,
                   concVars>>

\* the same invocations when storage operations may fail
FaultyCheckLimit(identifier, max, windowMs, fail) ==
    \E r \in {checkLimitFailing(storage, identifier, max, windowMs, now,
                                fail)} :
        /\ storage' = r.storage
        /\ last' = LastRec("checkLimit", identifier, max, windowMs, now,
                           IF Has(storage, identifier)
                           THEN {storage[identifier]} ELSE {},
                           r.result, r.ops)
        /\ error' = r.error
        /\ UNCHANGED <<now, alarmDeadline, win, solo, adapterVars, moreVars,
                       concVars>>

FaultyAlarm(d, fail, retry) ==
    /\ alarmDeadline # NULL
    /\ now >= alarmDeadline
    /\ now + d <= MaxTick
    /\ LET r == alarmFailing(storage, alarmDeadline, now, now + d, fail, retry)
       IN  /\ storage' = r.storage
           /\ alarmDeadline' = r.alarm
           /\ last' = LastRec("alarm", "", 0, 0, now, {}, NoResult, r.ops)
           /\ error' = r.error
    /\ now' = now + d
    /\ UNCHANGED <<win, solo, adapterVars, moreVars, concVars>>

\* the same invocations with a second actor that is sent only the observed
\* identifier's calls, at the same times, and runs the same sweeps
SoloCheckLimit(identifier, max, windowMs) ==
    /\ Call(identifier, max, windowMs)
    /\ solo' = IF identifier = Observed
               THEN [storage |-> checkLimit(solo.storage, identifier, max,
                                            windowMs, now).storage]
               ELSE solo
    /\ error' = NoError
    /\ UNCHANGED <<win, adapterVars, moreVars, concVars>>

SoloAlarm(d) ==
    /\ Sweep(d)
    /\ solo' = [storage |-> alarm(solo.storage, alarmDeadline, now,
                                   now + d).storage]
    /\ error' = NoError
    /\ UNCHANGED <<win, adapterVars, moreVars, concVars>>

\* every caller of one identifier passes the same max
InitFixedMax ==
    /\ InitActor
    /\ maxOf \in [Identifiers -> Maxes]
    /\ twin = NoTwin
    /\ quiet = {}
    /\ ConcAtRest

FixedCheckLimit(identifier, windowMs) ==
    CheckLimit(identifier, maxOf[identifier], windowMs)

\* the same calls sent to an actor of do-rate-limiter/do.ts as well
TwinCheckLimit(identifier, max, windowMs) ==
    /\ Call(identifier, max, windowMs)
    /\ twin' = [storage |-> do_checkLimit(twin.storage, identifier, max,
                                          windowMs, now).storage]
    /\ win' = win
    /\ error' = NoError
    /\ UNCHANGED <<solo, adapterVars, maxOf, quiet, concVars>>

\* the actor left to itself: calls arrive until time MaxTick, an identifier
\* may stop receiving calls, the clock runs on to the pending deadline and
\* the runtime then invokes alarm()
LiveCheckLimit(identifier, max, windowMs) ==
    /\ now <= MaxTick
    /\ identifier \notin quiet
    /\ Call(identifier, max, windowMs)
    /\ win' = win
    /\ error' = NoError
    /\ UNCHANGED <<solo, adapterVars, moreVars, concVars>>

Quiesce(identifier) ==
    /\ identifier \notin quiet
    /\ quiet' = quiet \cup {identifier}
    /\ UNCHANGED <<now, storage, alarmDeadline, last, win, error, solo,
                   adapterVars, maxOf, twin, concVars>>

Wait ==
    /\ alarmDeadline # NULL
    /\ now < alarmDeadline
    /\ alarmDeadline <= Horizon
    /\ now' = alarmDeadline
    /\ last' = NoLast
    /\ error' = NoError
    /\ UNCHANGED <<storage, alarmDeadline, win, solo, adapterVars, moreVars,
                   concVars>>

LiveAlarm(d) ==
    /\ alarmDeadline # NULL
    /\ now >= alarmDeadline
    /\ now + d <= Horizon
    /\ \E r \in {alarm(storage, alarmDeadline, now, now + d)} :
           /\ storage' = r.storage
           /\ alarmDeadline' = r.alarm
           /\ last' = LastRec("alarm", "", 0, 0, now, {}, NoResult, r.ops)
    /\ now' = now + d
    /\ error' = NoError
    /\ UNCHANGED <<win, solo, adapterVars, moreVars, concVars>>

\* ---------------------------------------------------- interleaved execution
\* The handlers step by step: each runs from one await of a storage
\* operation to the next, and between two steps of one invocation the
\* runtime may run steps of others unless a blockConcurrencyWhile callback
\* is running. A storage operation acts on the storage when it is issued.
InitConcurrent ==
    /\ now = 0
    /\ storage = EmptyStorage
    /\ alarmDeadline \in {NULL, 0}
    /\ last = NoLast
    /\ win = EmptyStorage
    /\ error = NoError
    /\ solo = NoSolo
    /\ actors = EmptyStorage
    /\ limiter = NoLimiter
    /\ lim = NoLim
    /\ MoreAtRest
    /\ gate = ConstructorGate
    /\ ctor = [pc |-> "getAlarm", sets |-> 0]
    /\ sweep = SweepIdle
    /\ inflight = AllIdle
    /\ acc = NoAcc

\* constructor: scheduleCleanup resumes after its getAlarm, sets the alarm
\* when there is none, and the blockConcurrencyWhile callback ends
CtorResume ==
    /\ ctor.pc = "getAlarm"
    /\ LET r == scheduleCleanup(alarmDeadline, now)
       IN  /\ alarmDeadline' = r.alarm
           /\ ctor' = [pc |-> "done", sets |-> ctor.sets + r.ops.setAlarm]
    /\ gate' = IF gate = ConstructorGate THEN NoGate ELSE gate
    /\ UNCHANGED <<now, storage, last, win, error, solo, adapterVars,
                   moreVars, sweep, inflight, acc>>

\* the idle instance is discarded and a new one constructed
RestartConcurrent ==
    /\ ctor.pc = "done"
    /\ sweep.pc = "idle"
    /\ inflight = AllIdle
    /\ gate' = ConstructorGate
    /\ ctor' = [pc |-> "getAlarm", sets |-> 0]
    /\ UNCHANGED <<now, storage, alarmDeadline, last, win, error, solo,
                   adapterVars, moreVars, sweep, inflight, acc>>

\* checkLimit up to its await of storage.get
Begin(p, identifier, max, windowMs) ==
    /\ gate = NoGate
    /\ inflight[p].pc = "idle"
    /\ p = "q" => inflight["p"].pc # "idle"
    /\ inflight' = [inflight EXCEPT ![p] =
                      [pc |-> "get", identifier |-> identifier,
                       max |-> max, windowMs |-> windowMs, now |-> now,
                       read |-> IF Has(storage, identifier)
                                THEN {storage[identifier]} ELSE {}]]
    /\ UNCHANGED <<now, storage, alarmDeadline, last, win, error, solo,
                   adapterVars, moreVars, gate, ctor, sweep, acc>>

\* checkLimit from the entry its get resolved with to its return
Resume(p) ==
    /\ gate = NoGate
    /\ inflight[p].pc = "get"
    /\ LET c == inflight[p]
           seen == IF c.read = {} THEN EmptyStorage
                   ELSE Put(EmptyStorage, c.identifier,
                            CHOOSE e \in c.read : TRUE)
           r == checkLimit(seen, c.identifier, c.max, c.windowMs, c.now)
       IN  /\ storage' = IF r.ops.put > 0
                         THEN Put(storage, c.identifier,
                                  r.storage[c.identifier])
                         ELSE storage
           /\ acc' = IF c.identifier = Observed /\ r.result.success
                     THEN IF acc.t = r.storage[Observed].timestamp
                          THEN [acc EXCEPT !.n = Min(@ + 1, MaxMax + 1)]
                          ELSE [t |-> r.storage[Observed].timestamp, n |-> 1]
                     ELSE acc
    /\ inflight' = [inflight EXCEPT ![p] = IdleCall]
    /\ UNCHANGED <<now, alarmDeadline, last, win, error, solo, adapterVars,
                   moreVars, gate, ctor, sweep>>

\* alarm() up to its await of storage.list
AlarmBegin ==
    /\ gate = NoGate
    /\ sweep.pc = "idle"
    /\ alarmDeadline # NULL
    /\ now >= alarmDeadline
    /\ gate' = AlarmGate
    /\ sweep' = [pc |-> "list", now |-> now, scan |-> storage,
                 expiredKeys |-> {}]
    /\ UNCHANGED <<now, storage, alarmDeadline, last, win, error, solo,
                   adapterVars, moreVars, ctor, inflight, acc>>

\* alarm() from the entries its list resolved with: to its await of
\* storage.delete when some are expired, else to its end
AlarmListed ==
    /\ sweep.pc = "list"
    /\ LET r == alarm(sweep.scan, alarmDeadline, sweep.now, now)
           expiredKeys == DOMAIN sweep.scan \ DOMAIN r.storage
       IN  IF r.ops.delete > 0
           THEN /\ storage' = Delete(storage, expiredKeys)
                /\ sweep' = [sweep EXCEPT !.pc = "delete",
                                          !.expiredKeys = expiredKeys]
                /\ UNCHANGED <<alarmDeadline, gate>>
           ELSE /\ alarmDeadline' = r.alarm
                /\ sweep' = SweepIdle
                /\ gate' = IF gate = AlarmGate THEN NoGate ELSE gate
                /\ storage' = storage
    /\ UNCHANGED <<now, last, win, error, solo, adapterVars, moreVars, ctor,
                   inflight, acc>>

\* alarm() after its delete: setAlarm, and the callback ends
AlarmDeleted ==
    /\ sweep.pc = "delete"
    /\ LET r == alarm(sweep.scan, alarmDeadline, sweep.now, now)
       IN  alarmDeadline' = r.alarm
    /\ sweep' = SweepIdle
    /\ gate' = IF gate = AlarmGate THEN NoGate ELSE gate
    /\ UNCHANGED <<now, storage, last, win, error, solo, adapterVars,
                   moreVars, ctor, inflight, acc>>

\* the adapter over its namespace: construction, then limit() calls
InitAdapter ==
    /\ now = 0
    /\ storage = EmptyStorage
    /\ alarmDeadline = scheduleCleanup(NULL, 0).alarm
    /\ last = NoLast
    /\ win = EmptyStorage
    /\ error = NoError
    /\ solo = NoSolo
    /\ actors = EmptyStorage
    /\ \E prefixOption \in PrefixOptions, window \in Windows :
          limiter = newLimiter(prefixOption, MaxMax, window)
    /\ lim = NoLim
    /\ MoreAtRest
    /\ ConcAtRest

Limit(key, fail) ==
    \E r \in {limit(actors, limiter, key, now, fail)} :
        /\ actors' = r.actors
        /\ lim' = [op |-> "limit", key |-> key, fault |-> fail,
                   names |-> r.names,
                   checks |-> r.checks, result |-> r.result,
                   error |-> r.error]
        /\ last' = LastRec("checkLimit", r.checks[1].identifier,
                           r.checks[1].max, r.checks[1].windowMs, now,
                           r.prev, r.inner.result, r.inner.ops)
        /\ error' = r.inner.error
        /\ UNCHANGED <<now, storage, alarmDeadline, win, solo, limiter,
                       moreVars, concVars>>

TickAdapter ==
    /\ now < MaxTick
    /\ now' = now + 1
    /\ last' = NoLast
    /\ error' = NoError
    /\ lim' = NoLim
    /\ UNCHANGED <<storage, alarmDeadline, win, solo, actors, limiter,
                   moreVars, concVars>>

Next ==
    \/ \E identifier \in Identifiers, max \in Maxes, windowMs \in Windows :
          CheckLimit(identifier, max, windowMs)
    \/ \E d \in 0..MaxAdvance : Alarm(d)
    \/ Restart
    \/ Tick

Spec == Init /\ [][Next]_vars

NextObserved ==
    \/ \E max \in Maxes, windowMs \in Windows :
          ObservedCheckLimit(Observed, max, windowMs)
    \/ \E identifier \in Identifiers \ {Observed} :
          ObservedCheckLimit(identifier, MaxMax, MaxWindow)
    \/ \E d \in 0..MaxAdvance : ObservedAlarm(d)
    \/ Restart
    \/ Tick

SpecObserved == Init /\ [][NextObserved]_vars

NextSolo ==
    \/ \E identifier \in Identifiers, max \in Maxes, windowMs \in Windows :
          SoloCheckLimit(identifier, max, windowMs)
    \/ \E d \in 0..MaxAdvance : SoloAlarm(d)
    \/ Restart
    \/ Tick

SpecSolo == Init /\ [][NextSolo]_vars

NextAdapter ==
    \/ \E key \in Keys, fail \in CheckLimitFails : Limit(key, fail)
    \/ TickAdapter

SpecAdapter == InitAdapter /\ [][NextAdapter]_vars

NextFaulty ==
    \/ \E identifier \in Identifiers, windowMs \in Windows,
          fail \in CheckLimitFails :
          FaultyCheckLimit(identifier, MaxMax, windowMs, fail)
    \/ \E d \in 0..MaxAdvance, fail \in AlarmFails, retry \in BOOLEAN :
          FaultyAlarm(d, fail, retry)
    \/ Restart
    \/ Tick

SpecFaulty == Init /\ [][NextFaulty]_vars

NextFixedMax ==
    \/ \E identifier \in Identifiers, windowMs \in Windows :
          FixedCheckLimit(identifier, windowMs)
    \/ \E d \in 0..MaxAdvance : Alarm(d)
    \/ Restart
    \/ Tick

SpecFixedMax == InitFixedMax /\ [][NextFixedMax]_vars

NextTwin ==
    \/ \E identifier \in Identifiers, max \in Maxes, windowMs \in Windows :
          TwinCheckLimit(identifier, max, windowMs)
    \/ Restart
    \/ Tick

SpecTwin == Init /\ [][NextTwin]_vars

NextLive ==
    \/ \E windowMs \in Windows : LiveCheckLimit(Observed, MaxMax, windowMs)
    \/ \E identifier \in Identifiers \ {Observed} :
          LiveCheckLimit(identifier, MaxMax, MaxWindow)
    \/ \E identifier \in Identifiers : Quiesce(identifier)
    \/ Tick
    \/ Wait
    \/ \E d \in 0..MaxAdvance : LiveAlarm(d)

\* time advances and a pending alarm that has come due fires
SpecLive ==
    /\ Init
    /\ [][NextLive]_vars
    /\ WF_vars(Tick)
    /\ WF_vars(Wait)
    /\ WF_vars(\E d \in 0..MaxAdvance : LiveAlarm(d))

NextConcurrent ==
    \/ CtorResume
    \/ RestartConcurrent
    \/ \E p \in Procs, windowMs \in Windows :
          Begin(p, Observed, MaxMax, windowMs)
    \/ \E p \in Procs : Resume(p)
    \/ AlarmBegin
    \/ AlarmListed
    \/ AlarmDeleted
    \/ Tick

SpecConcurrent == InitConcurrent /\ [][NextConcurrent]_vars

TypeOK ==
    /\ now \in Nat
    /\ DOMAIN storage \subseteq Identifiers
    /\ \A k \in DOMAIN storage :
          /\ storage[k].count \in 1..MaxMax
          /\ storage[k].timestamp \in 0..now
          /\ storage[k].windowMs \in Windows
    /\ DOMAIN win \subseteq {Observed} \cap DOMAIN storage

\* ================================================================ claims
IsCheck == last.op = "checkLimit"

\* the entry the last checkLimit call left in storage for its identifier
Stored == storage[last.identifier]

\* the last checkLimit call wrote a first-of-window entry
StartedFresh ==
    /\ last.ops.put = 1
    /\ Has(storage, last.identifier)
    /\ Stored.count = 1
    /\ Stored.timestamp = last.now

\* C1: in a window of one identifier opened from no entry in which every
\* call passes the opening call's max and windowMs (tracked), the k-th call
\* (k <= max) succeeds with
\* remaining = max - k and every later call fails with remaining = 0.
C1_AcceptRejectBoundary ==
    (/\ IsCheck
     /\ Has(win, last.identifier)
     /\ win[last.identifier].tracked)
    => LET k == win[last.identifier].k
       IN  IF k <= last.max
           THEN last.result.success /\ last.result.remaining = last.max - k
           ELSE ~last.result.success /\ last.result.remaining = 0

C1_Witness ==
    /\ IsCheck
    /\ Has(win, last.identifier)
    /\ win[last.identifier].tracked
    /\ last.max = MaxMax
    /\ win[last.identifier].k = MaxMax + 1
    /\ ~last.result.success

\* C2 as stated: a call at now >= entry.timestamp + windowMs, the boundary
\* included, returns success with remaining = max - 1 and leaves count = 1,
\* timestamp = now.
C2_ResetAtBoundary ==
    IsCheck =>
      \A e \in last.prev :
        last.now >= e.timestamp + last.windowMs =>
          /\ last.result.success
          /\ last.result.remaining = last.max - 1
          /\ Stored.count = 1
          /\ Stored.timestamp = last.now

\* C2 amended: a call at now > entry.timestamp + windowMs (the windowMs of
\* this call), whatever the stored count, returns success with
\* remaining = max - 1 and leaves count = 1, timestamp = now.
C2_ResetAfterWindow ==
    IsCheck =>
      \A e \in last.prev :
        last.now > e.timestamp + last.windowMs =>
          /\ last.result.success
          /\ last.result.remaining = last.max - 1
          /\ Stored.count = 1
          /\ Stored.timestamp = last.now

C2_Witness ==
    /\ IsCheck
    /\ \E e \in last.prev :
         /\ last.now > e.timestamp + last.windowMs
         /\ e.count >= last.max
         /\ e.count > 1
         /\ e.windowMs # last.windowMs
    /\ last.result.success
    /\ Stored.count = 1

\* C3 as stated: a fresh window is started iff there is no entry or the
\* stored entry's own timestamp + windowMs is before now.
C3_ExpiryFromStoredWindow ==
    IsCheck =>
      (StartedFresh <=>
         (last.prev = {}
          \/ \E e \in last.prev : e.timestamp + e.windowMs < last.now))

\* C3 amended: a fresh window is started iff there is no entry or
\* entry.timestamp + windowMs < now for the windowMs argument of this call.
C3_ExpiryFromArgument ==
    IsCheck =>
      (StartedFresh <=>
         (last.prev = {}
          \/ \E e \in last.prev : e.timestamp + last.windowMs < last.now))

C3_Witness ==
    /\ IsCheck
    /\ StartedFresh
    /\ \E e \in last.prev :
         /\ e.windowMs # last.windowMs
         /\ ~(e.timestamp + e.windowMs < last.now)
         /\ e.timestamp + last.windowMs < last.now

\* the last checkLimit call found an entry whose window (by this call's
\* windowMs) is active and whose count has reached max
RejectedCase ==
    /\ IsCheck
    /\ \E e \in last.prev :
         /\ ~(e.timestamp + last.windowMs < last.now)
         /\ e.count >= last.max

\* C4 as stated: a rejected call reports reset = entry.timestamp +
\* entry.windowMs, from the stored windowMs.
C4_ResetFromStoredWindow ==
    RejectedCase =>
      \A e \in last.prev : last.result.reset = e.timestamp + e.windowMs

\* C4 amended: a rejected call reports reset = entry.timestamp + the
\* windowMs argument of that call.
C4_ResetFromArgument ==
    RejectedCase =>
      \A e \in last.prev : last.result.reset = e.timestamp + last.windowMs

C4_Witness ==
    /\ RejectedCase
    /\ ~last.result.success
    /\ \E e \in last.prev : e.windowMs # last.windowMs

\* C5: a rejected checkLimit call (entry present, window active, count >=
\* max) writes nothing: storage, every entry in it and the alarm deadline
\* are unchanged, and it returns success=false, remaining=0, limit=max.
C5_RejectWritesNothing ==
    [][(/\ last'.op = "checkLimit"
        /\ \/ ~last'.result.success
           \/ /\ Has(storage, last'.identifier)
              /\ ~(storage[last'.identifier].timestamp + last'.windowMs < now)
              /\ storage[last'.identifier].count >= last'.max)
       => /\ storage' = storage
          /\ alarmDeadline' = alarmDeadline
          /\ last'.ops.put = 0
          /\ last'.ops.delete = 0
          /\ last'.ops.setAlarm = 0
          /\ ~last'.result.success
          /\ last'.result.remaining = 0
          /\ last'.result.limit = last'.max]_vars

C5_Witness ==
    /\ RejectedCase
    /\ ~last.result.success
    /\ \E e \in last.prev : e.count > last.max /\ e.windowMs # last.windowMs
    /\ DOMAIN storage = Identifiers

\* C6: a call that finds no entry, or an entry whose window has elapsed,
\* stores exactly {count: 1, timestamp: now, windowMs: argument} and
\* returns {success: true, remaining: max - 1, reset: now + windowMs,
\* limit: max}.
C6_FreshWindowWrite ==
    (/\ IsCheck
     /\ \/ last.prev = {}
        \/ \E e \in last.prev : e.timestamp + last.windowMs < last.now)
    => /\ Has(storage, last.identifier)
       /\ Stored = [count |-> 1, timestamp |-> last.now,
                    windowMs |-> last.windowMs]
       /\ last.ops.put = 1
       /\ last.result = [success |-> TRUE, remaining |-> last.max - 1,
                         reset |-> last.now + last.windowMs,
                         limit |-> last.max]

C6_Witness ==
    /\ IsCheck
    /\ \E e \in last.prev :
         /\ e.timestamp + last.windowMs < last.now
         /\ e.count > 1
         /\ e.windowMs # last.windowMs
    /\ Stored = [count |-> 1, timestamp |-> last.now,
                 windowMs |-> last.windowMs]

\* C7: a call accepted inside an active window adds exactly 1 to the stored
\* count, stores the windowMs argument, keeps the stored timestamp, and
\* returns success with remaining = max - (count after the increment).
C7_IncrementInWindow ==
    IsCheck =>
      \A e \in last.prev :
        (~(e.timestamp + last.windowMs < last.now) /\ e.count < last.max)
        => /\ Stored = [count |-> e.count + 1, timestamp |-> e.timestamp,
                        windowMs |-> last.windowMs]
           /\ last.result.success
           /\ last.result.remaining = last.max - (e.count + 1)
           /\ last.result.limit = last.max

C7_Witness ==
    /\ IsCheck
    /\ \E e \in last.prev :
         /\ ~(e.timestamp + last.windowMs < last.now)
         /\ e.count < last.max
         /\ e.windowMs # last.windowMs
         /\ e.timestamp # last.now
         /\ Stored.timestamp = e.timestamp
         /\ Stored.windowMs = last.windowMs

\* C8 as stated: every call in one window reports the same reset, the
\* opening call's timestamp + the opening call's windowMs.
C8_ResetConstantInWindow ==
    (IsCheck /\ Has(win, last.identifier))
    => last.result.reset
         = win[last.identifier].t + win[last.identifier].windowMs

\* C8 amended: every call in one window reports reset = the opening call's
\* timestamp + the windowMs argument of the reporting call, so calls that
\* pass the opening call's windowMs all report the same reset.
C8_ResetFollowsArgument ==
    (IsCheck /\ Has(win, last.identifier))
    => /\ Stored.timestamp = win[last.identifier].t
       /\ last.result.reset = win[last.identifier].t + last.windowMs
       /\ (last.windowMs = win[last.identifier].windowMs
           => last.result.reset
                = win[last.identifier].t + win[last.identifier].windowMs)

C8_Witness ==
    /\ IsCheck
    /\ Has(win, last.identifier)
    /\ ~last.result.success
    /\ last.now > win[last.identifier].t
    /\ last.windowMs # win[last.identifier].windowMs
    /\ last.result.reset = win[last.identifier].t + last.windowMs

\* C9: a sweep deletes exactly the entries with timestamp + windowMs < now
\* and leaves every other entry as it was; timestamp + windowMs = now is
\* kept.
C9_SweepDeletesExactlyExpired ==
    [][\A d \in 0..MaxAdvance :
         Alarm(d) =>
           /\ DOMAIN storage' =
                {k \in DOMAIN storage :
                   ~(storage[k].timestamp + storage[k].windowMs < now)}
           /\ \A k \in DOMAIN storage' : storage'[k] = storage[k]]_vars

C9_Witness ==
    /\ last.op = "alarm"
    /\ last.ops.delete = 1
    /\ \E k \in DOMAIN storage :
         storage[k].timestamp + storage[k].windowMs = last.now

\* C10: every sweep sets the alarm deadline 12 hours ahead, strictly later
\* than the time the sweep was invoked, also when nothing is deleted or
\* storage is empty; a sweep that finds no expired entry calls delete zero
\* times.
C10_SweepReschedules ==
    [][\A d \in 0..MaxAdvance :
         Alarm(d) =>
           /\ alarmDeadline' > now
           /\ alarmDeadline' >= now + CLEANUP_INTERVAL_MS
           /\ alarmDeadline' = now' + CLEANUP_INTERVAL_MS
           /\ last'.ops.setAlarm = 1
           /\ (\A k \in DOMAIN storage :
                 ~(storage[k].timestamp + storage[k].windowMs < now))
              => last'.ops.delete = 0]_vars

C10_Witness ==
    /\ last.op = "alarm"
    /\ last.ops.delete = 0
    /\ last.ops.setAlarm = 1
    /\ storage = EmptyStorage
    /\ alarmDeadline > last.now

\* C11 as stated: after construction the actor always has a pending alarm
\* deadline, also after a sweep in which list, delete or setAlarm fails.
C11_AlarmAlwaysPending == alarmDeadline # NULL

\* C12: construction sets the deadline to now + 12 hours when none is
\* pending, and otherwise leaves the pending deadline as it is without
\* calling setAlarm.
C12_ConstructionSchedulesOnce ==
    [][Restart =>
         /\ last'.ops.getAlarm = 1
         /\ IF alarmDeadline = NULL
            THEN /\ alarmDeadline' = now + CLEANUP_INTERVAL_MS
                 /\ last'.ops.setAlarm = 1
            ELSE /\ alarmDeadline' = alarmDeadline
                 /\ last'.ops.setAlarm = 0]_vars

C12_Witness ==
    /\ last.op = "constructor"
    /\ last.now > 0
    /\ last.ops.setAlarm = 1
    /\ alarmDeadline = last.now + CLEANUP_INTERVAL_MS

\* C13: a checkLimit call for one identifier leaves every other
\* identifier's entry as it was, and the observed identifier's entry and
\* results are those of an actor that was sent only that identifier's calls.
C13_Independence ==
    /\ [](/\ Has(storage, Observed) <=> Has(solo.storage, Observed)
          /\ Has(storage, Observed)
             => storage[Observed] = solo.storage[Observed])
    /\ [][last'.op = "checkLimit" =>
            /\ \A k \in Identifiers \ {last'.identifier} :
                  /\ Has(storage', k) <=> Has(storage, k)
                  /\ Has(storage, k) => storage'[k] = storage[k]
            /\ last'.identifier = Observed
               => last'.result
                    = checkLimit(solo.storage, Observed, last'.max,
                                 last'.windowMs, now).result]_vars

C13_Witness ==
    /\ IsCheck
    /\ last.identifier = Observed
    /\ Stored.count > 1
    /\ solo.storage[Observed] = Stored
    /\ \E k \in Identifiers \ {Observed} :
         /\ Has(storage, k)
         /\ storage[k].count > 1
         /\ storage[k].timestamp # Stored.timestamp

\* C14 as stated: limit("") fails with "Key cannot be empty" before any
\* actor is resolved and before checkLimit is invoked.
C14_EmptyKeyRejected ==
    (lim.op = "limit" /\ lim.key = "")
    => /\ lim.error = "Key cannot be empty"
       /\ lim.names = <<>>
       /\ lim.checks = <<>>

\* C15: limit(key) for a non-empty key resolves exactly the actor named
\* prefix + key (prefix "orpc:ratelimit:" when none is given), calls
\* checkLimit once on it with (prefix + key, maxRequests, window) and
\* returns what checkLimit returned; equal keys give equal actor names and
\* different keys different ones.
C15_AdapterRouting ==
    /\ limiter.options = {} => limiter.prefix = "orpc:ratelimit:"
    /\ \A p \in limiter.options : limiter.prefix = p
    /\ (lim.op = "limit" /\ lim.key # "")
       => /\ lim.names = <<limiter.prefix \o lim.key>>
          /\ lim.checks = <<[actor |-> limiter.prefix \o lim.key,
                             identifier |-> limiter.prefix \o lim.key,
                             max |-> limiter.maxRequests,
                             windowMs |-> limiter.window]>>
          /\ IsCheck
          /\ last.identifier = limiter.prefix \o lim.key
          /\ lim.error = NoError => lim.result = last.result
          /\ DOMAIN actors \subseteq {limiter.prefix \o k : k \in Keys}
    /\ \A k1, k2 \in Keys \ {""} :
         prefixedKeyOf(limiter, k1) = prefixedKeyOf(limiter, k2) <=> k1 = k2

C15_Witness ==
    /\ lim.op = "limit"
    /\ lim.key # ""
    /\ limiter.options = {}
    /\ lim.names = <<"orpc:ratelimit:x">>
    /\ lim.error = NoError
    /\ lim.result.success
    /\ lim.result.remaining = 0
    /\ Cardinality(DOMAIN actors \ {limiter.prefix}) = 2

\* the actor storage the adapter's call for key ends up addressing
ActorStorage(ns, key) ==
    IF Has(ns, limiter.prefix \o key)
    THEN ns[limiter.prefix \o key].storage ELSE EmptyStorage

\* C18: a storage failure inside checkLimit is what checkLimit throws and
\* what limit() rejects with; a failed get writes nothing and leaves
\* storage unchanged; a failed put is attempted once and no result is
\* returned.
C18_StorageFailurePropagates ==
    [][lim'.op = "limit" =>
         /\ lim'.error = error'
         /\ lim'.fault = "none" => error' = NoError
         /\ lim'.fault = "get"
            => /\ error' = "get"
               /\ last'.ops.get = 1
               /\ last'.ops.put = 0
               /\ ActorStorage(actors', lim'.key)
                    = ActorStorage(actors, lim'.key)
               /\ \A n \in DOMAIN actors : actors'[n] = actors[n]
               /\ lim'.result = NoResult
         /\ lim'.fault = "put"
            => \/ /\ error' = "put"
                  /\ last'.ops.put = 1
                  /\ lim'.result = NoResult
               \/ /\ error' = NoError
                  /\ last'.ops.put = 0
                  /\ ~lim'.result.success
                  /\ \E e \in last'.prev : e.count >= limiter.maxRequests]_vars

C18_Witness ==
    /\ lim.op = "limit"
    /\ lim.error = "put"
    /\ error = "put"
    /\ last.ops.put = 1
    /\ lim.result = NoResult
    /\ \E e \in last.prev : e.count < last.max

\* C16: every checkLimit result has remaining >= 0 and limit = max, and a
\* failed one has remaining = 0, also when the stored count exceeds max.
C16_ResultShape ==
    IsCheck =>
      /\ last.result.remaining >= 0
      /\ last.result.limit = last.max
      /\ ~last.result.success => last.result.remaining = 0

C16_Witness ==
    /\ IsCheck
    /\ ~last.result.success
    /\ last.result.remaining = 0
    /\ \E e \in last.prev : e.count > last.max

\* C17: every entry in storage, and so every entry checkLimit wrote, has
\* count > 0.
C17_CountPositive ==
    /\ \A k \in DOMAIN storage : storage[k].count > 0
    /\ (IsCheck /\ last.ops.put > 0)
       => Has(storage, last.identifier) /\ Stored.count > 0

C17_Witness ==
    /\ IsCheck
    /\ last.ops.put = 1
    /\ Stored.count = 1
    /\ \E e \in last.prev : e.count > 1
    /\ \E k \in DOMAIN storage : k # last.identifier

\* C19: a restart changes no stored entry and no pending alarm deadline,
\* and every checkLimit call answers after it as it would have before it.
C19_RestartTransparent ==
    [][Restart =>
         /\ storage' = storage
         /\ now' = now
         /\ alarmDeadline # NULL => alarmDeadline' = alarmDeadline
         /\ \A identifier \in Identifiers, max \in Maxes,
               windowMs \in Windows :
              checkLimit(storage', identifier, max, windowMs, now')
                = checkLimit(storage, identifier, max, windowMs, now)]_vars

C19_Witness ==
    /\ last.op = "constructor"
    /\ last.now > 0
    /\ last.ops.setAlarm = 0
    /\ alarmDeadline # NULL
    /\ DOMAIN storage = Identifiers
    /\ \E k \in DOMAIN storage : storage[k].count > 1

\* C20: a checkLimit call reads storage at most once, writes it at most
\* once, and calls neither delete, list, getAlarm nor setAlarm.
C20_OneReadOneWrite ==
    IsCheck =>
      /\ last.ops.get <= 1
      /\ last.ops.put <= 1
      /\ last.ops.delete = 0
      /\ last.ops.list = 0
      /\ last.ops.getAlarm = 0
      /\ last.ops.setAlarm = 0

C20_Witness ==
    /\ IsCheck
    /\ last.ops.get = 1
    /\ last.ops.put = 1
    /\ \E e \in last.prev : e.count + 1 = Stored.count

\* C23 as stated: after a sweep every later checkLimit call, whatever its
\* windowMs, returns what it would have returned had the sweep not run.
C23_SweepInvisible ==
    [][last'.op = "alarm" =>
         \A identifier \in Identifiers, max \in Maxes, windowMs \in Windows,
            t \in now'..MaxTick :
            checkLimit(storage', identifier, max, windowMs, t).result
              = checkLimit(storage, identifier, max, windowMs, t).result]_vars

\* C23 amended: after a sweep, a later checkLimit call for an identifier
\* returns and stores what it would have without the sweep, provided that,
\* when the sweep deleted the identifier's entry, the call's windowMs is at
\* most the windowMs stored in that entry.
C23_SweepInvisibleWithinStoredWindow ==
    [][last'.op = "alarm" =>
         \A identifier \in Identifiers, max \in Maxes, windowMs \in Windows,
            t \in now'..MaxTick :
            ((Has(storage, identifier) /\ ~Has(storage', identifier))
               => windowMs <= storage[identifier].windowMs)
            => LET swept == checkLimit(storage', identifier, max, windowMs, t)
                   kept == checkLimit(storage, identifier, max, windowMs, t)
               IN  /\ swept.result = kept.result
                   /\ swept.storage[identifier] = kept.storage[identifier]
                   /\ \A k \in DOMAIN storage' : storage'[k] = storage[k]]_vars

C23_Witness ==
    /\ last.op = "alarm"
    /\ last.ops.delete = 1
    /\ Cardinality(DOMAIN storage) = 1

\* C26: when every checkLimit call for an identifier passes the same max,
\* the identifier's stored count is between 1 and that max.
C26_CountWithinMax ==
    \A k \in DOMAIN storage :
       /\ 1 <= storage[k].count
       /\ storage[k].count <= maxOf[k]

C26_Witness ==
    /\ IsCheck
    /\ ~last.result.success
    /\ \E e \in last.prev : e.count = maxOf[last.identifier]
    /\ Stored.count = maxOf[last.identifier]
    /\ maxOf[last.identifier] < MaxMax
    /\ \E k \in Identifiers : maxOf[k] = MaxMax

\* C27: sent the same checkLimit calls with no sweep in between, the actor
\* of do-rate-limiter/do.ts and the actor of durable-object.ts return the
\* same results call by call and hold the same count and timestamp for
\* every identifier.
C27_ImplementationsAgree ==
    /\ [](/\ DOMAIN twin.storage = DOMAIN storage
          /\ \A k \in DOMAIN storage :
                /\ twin.storage[k].count = storage[k].count
                /\ twin.storage[k].timestamp = storage[k].timestamp)
    /\ [][last'.op = "checkLimit" =>
            last'.result
              = do_checkLimit(twin.storage, last'.identifier, last'.max,
                              last'.windowMs, now).result]_vars

C27_Witness ==
    /\ IsCheck
    /\ ~last.result.success
    /\ \E e \in last.prev : e.windowMs # last.windowMs
    /\ DOMAIN twin.storage = Identifiers
    /\ \E k \in Identifiers : twin.storage[k].count > 1

\* C25: an entry whose window has elapsed, of an identifier that receives
\* no further checkLimit call, is eventually deleted from storage, given
\* that time advances, due alarms fire and storage operations succeed.
C25_EventualReclamation ==
    \A identifier \in Identifiers :
       (/\ identifier \in quiet
        /\ Has(storage, identifier)
        /\ storage[identifier].timestamp + storage[identifier].windowMs < now)
       ~> ~Has(storage, identifier)

C25_Witness ==
    /\ last.op = "alarm"
    /\ last.ops.delete = 1
    /\ last.now > CLEANUP_INTERVAL_MS
    /\ quiet # {}
    /\ storage = EmptyStorage

C22_SweepAtomic ==
    /\ [](sweep.pc = "list" => storage = sweep.scan)
    /\ [][sweep.pc # "idle" => inflight' = inflight]_vars

C22_Witness ==
    /\ sweep.pc = "delete"
    /\ sweep.expiredKeys # {}
    /\ gate = "alarm"
    /\ inflight["p"].pc = "get"
    /\ inflight["p"].now < now

\* C24: until the constructor's scheduleCleanup has completed, no checkLimit
\* call and no alarm handler has started on the instance, and one
\* construction schedules at most one alarm.
C24_ConstructionGate ==
    /\ ctor.pc # "done" => (inflight = AllIdle /\ sweep.pc = "idle")
    /\ ctor.sets <= 1

C24_Witness ==
    /\ ctor.pc = "done"
    /\ ctor.sets = 1
    /\ gate = NoGate
    /\ inflight["p"].pc = "get"
    /\ inflight["q"].pc = "get"
====
